---------------------------- MODULE Spec2Model ----------------------------
(***************************************************************************)
(* Inter-hart signalling of the tCore SBI firmware: the boot barrier of    *)
(* include/smp.h (smp_pause, smp_resume), the CLINT driver of              *)
(* devices/clint, and the mailbox test loop of main.c (test_ipi,           *)
(* other_main, wait_ipi) with readline, strlen and memcpy.                 *)
(*                                                                         *)
(* Memory is sequentially consistent and every hart runs its instructions  *)
(* in program order; one action is one shared-memory access together with  *)
(* the hart-local instructions around it.  A polling loop that reads an    *)
(* unchanged value is a stuttering step, so a loop is an action guarded by *)
(* its exit condition.                                                     *)
(***************************************************************************)
EXTENDS Integers, Sequences, FiniteSets, TLC

(***************************************************************************)
(* Program constants.                                                      *)
(***************************************************************************)
MAX_HARTS == 5
ZERO_HART == 0
\* 0x2000000
CLINT_CTRL_ADDR == 33554432
CLINT_MSIP_OFFSET == 0
CLINT_MSIP_SIZE == 4
\* 0x4000
CLINT_MTIMECMP_OFFSET == 16384
CLINT_MTIMECMP_SIZE == 8
\* 0x1000
SMP_SIZE == 4096
BUFSIZE == 1024

(***************************************************************************)
(* Bounds of the model and the keys typed at the prompts.                  *)
(***************************************************************************)
\* Iterations of the test loop of test_ipi the user drives.
MaxRounds == 2

\* Keys typed before the return key: at the console test, at the hart id
\* prompt ("", "0", "1" .. "4", "5", "/") and at the message prompt ("", and
\* "ab" typed as b, backspace, a, b).  '0' is 48, 'a' is 97, '\b' is 8.
ConsoleLines == {<<97>>}
TargetLines == {<<>>, <<48>>, <<49>>, <<50>>, <<51>>, <<52>>, <<53>>, <<47>>}
MessageLines == {<<>>, <<98, 8, 97, 98>>}

\* Iterations of the test loop when the user types long lines.
LongRounds == 1

\* A line of len keys 'a'.
KeysA(len) == [i \in 1 .. len |-> 97]

\* Lines typed at the message prompt: a short one, and long ones around the
\* size of readline's buffer and around the size of the mailbox.
LongLines ==
    {KeysA(2), KeysA(BUFSIZE - 1), KeysA(BUFSIZE),
     KeysA(SMP_SIZE - 1), KeysA(SMP_SIZE)}

\* The hart ids typed before a long message.
LongTargetLines == {<<>>, <<52>>}

\* Values handed to clint_set_timecmp.
TimeValues == {0, 7}

\* What a load from a mailbox byte that was never stored may return.
UndefinedBytes == {0, 63}

Harts == 0 .. (MAX_HARTS - 1)
Secondaries == Harts \ {ZERO_HART}

\* Offsets of the msip registers of harts 0..4 from the CLINT base; the
\* device wires bit 0 of register h to mip.MSIP of hart h.
CLINT_MSIP_OFFSETS == <<0, 4, 8, 12, 16>>

\* Mutant: the end of the msip registers one hart short.
CLINT_END_HART_IPI_Short == CLINT_CTRL_ADDR + ((MAX_HARTS - 1) * CLINT_MSIP_SIZE)

CLINT_END_HART_IPI == CLINT_CTRL_ADDR + (MAX_HARTS * CLINT_MSIP_SIZE)

\* Mutant: the stride of the mtimecmp registers in place of the msip one.
CLINT_SOFT_Stride8(base, hartid) ==
    base + hartid * CLINT_MTIMECMP_SIZE + CLINT_MSIP_OFFSET

CLINT_SOFT(base, hartid) == base + hartid * CLINT_MSIP_SIZE + CLINT_MSIP_OFFSET

CLINT_TIMECMP(base, hartid) ==
    base + hartid * CLINT_MTIMECMP_SIZE + CLINT_MTIMECMP_OFFSET

\* Offsets of the mtimecmp registers of harts 0..4: 0x4000 .. 0x4020.
CLINT_MTIMECMP_OFFSETS == <<16384, 16392, 16400, 16408, 16416>>

\* The addresses the device decodes: the 32-bit msip0..4 and the 64-bit
\* mtimecmp0..4.
ClintRegs ==
    {CLINT_CTRL_ADDR + CLINT_MSIP_OFFSETS[k] : k \in 1 .. MAX_HARTS}
    \cup {CLINT_CTRL_ADDR + CLINT_MTIMECMP_OFFSETS[k] : k \in 1 .. MAX_HARTS}

VARIABLES
    mem,        \* the CLINT registers, address -> value
    mie,        \* mie.MSIP of each hart
    clint_base, \* static clint_base of clint.c
    pc,         \* position of each hart
    reg1,       \* register reg1 of each hart inside smp_resume
    smp,        \* the mailbox, byte offset from SMP_ADDR -> byte, for the
                \* offsets written so far
    buf,        \* static buf of readline, up to its terminating NUL
    to_hartid,  \* to_hartid of test_ipi, a 64-bit size_t
    n,          \* n of memcpy: bytes still to copy
    d,          \* d of memcpy, as an offset from SMP_ADDR (s runs alongside)
    rx,         \* per hart: the bytes the running uart_puts(SMP_ADDR) has put
    rounds,     \* iterations of the test loop completed
    typed,      \* the number of keys typed at the last message prompt
    drv         \* the last call of the CLINT driver made on its own: the
                \* function, its hartid and the registers before the call

vars == <<mem, mie, clint_base, pc, reg1, smp, buf, to_hartid, n, d, rx,
          rounds, typed, drv>>

hw == <<mem, mie, clint_base>>
mbox == <<smp, buf, to_hartid, n, d, rx, rounds, typed, drv>>

(***************************************************************************)
(* Device access (include/io.h) and the CLINT driver (devices/clint).      *)
(***************************************************************************)
\* sw v, 0(a): a store to an address the device does not decode is dropped.
raw_writew(m, v, a) == IF a \in DOMAIN m THEN [m EXCEPT ![a] = v] ELSE m

\* lw 0(a): an address the device does not decode reads as zero.
raw_readw(m, a) == IF a \in DOMAIN m THEN m[a] ELSE 0

\* fence w,o ; sw: with sequentially consistent memory the fence adds nothing
\* to the store.
writew(m, v, a) == raw_writew(m, v, a)

\* lw ; fence i,r
readw(m, a) == raw_readw(m, a)

clint_check_soft(m, base, hartid) == readw(m, CLINT_SOFT(base, hartid))

clint_send_soft(m, base, hartid) == writew(m, 1, CLINT_SOFT(base, hartid))

\* Mutant: the clear copied from the send with its 1 left in place.
clint_clear_soft_One(m, base, hartid) == writew(m, 1, CLINT_SOFT(base, hartid))

clint_clear_soft(m, base, hartid) == writew(m, 0, CLINT_SOFT(base, hartid))

\* fence w,o ; sd
writed(m, v, a) == IF a \in DOMAIN m THEN [m EXCEPT ![a] = v] ELSE m

clint_set_timecmp(m, base, hartid, time) ==
    writed(m, time, CLINT_TIMECMP(base, hartid))

\* csrr mip ; andi MIP_MSIP: the hart's machine software interrupt pending
\* bit is bit 0 of its msip register.
MipMsip(m, h) == (m[CLINT_CTRL_ADDR + CLINT_MSIP_OFFSETS[h + 1]] % 2) = 1

\* No driver call made on its own yet.
NoCall == [op |-> "none", hartid |-> 0, before |-> <<>>, result |-> 0]

(***************************************************************************)
(* Boot barrier (include/smp.h).                                           *)
(***************************************************************************)
\* Where a hart continues behind smp_resume.
Entry(h) == IF h = ZERO_HART THEN "main" ELSE "other_main"

\* Mutant: smp_pause without its csrw mie, reg2.
SmpPauseNoMie(h) ==
    /\ pc[h] = "smp_pause"
    /\ IF ZERO_HART # h
         THEN /\ pc' = [pc EXCEPT ![h] = "wfi"]
              /\ UNCHANGED reg1
         ELSE /\ pc' = [pc EXCEPT ![h] = "broadcast"]
              /\ reg1' = [reg1 EXCEPT ![h] = CLINT_CTRL_ADDR]
    /\ UNCHANGED <<mem, mie, clint_base>>
    /\ UNCHANGED mbox

\* smp_pause: csrw mie, MIP_MSIP; every hart but ZERO_HART branches to label
\* 42 of smp_resume, ZERO_HART falls through to li reg1, CLINT_CTRL_ADDR.
SmpPause(h) ==
    /\ pc[h] = "smp_pause"
    /\ mie' = [mie EXCEPT ![h] = TRUE]
    /\ IF ZERO_HART # h
         THEN /\ pc' = [pc EXCEPT ![h] = "wfi"]
              /\ UNCHANGED reg1
         ELSE /\ pc' = [pc EXCEPT ![h] = "broadcast"]
              /\ reg1' = [reg1 EXCEPT ![h] = CLINT_CTRL_ADDR]
    /\ UNCHANGED <<mem, clint_base>>
    /\ UNCHANGED mbox

\* Mutant: the broadcast steps by the size of an mtimecmp register.
SmpBroadcastStride8(h) ==
    /\ pc[h] = "broadcast"
    /\ mem' = raw_writew(mem, 1, reg1[h])
    /\ reg1' = [reg1 EXCEPT ![h] = reg1[h] + 8]
    /\ pc' = [pc EXCEPT ![h] =
                 IF reg1[h] + 8 < CLINT_END_HART_IPI THEN "broadcast" ELSE "wfi"]
    /\ UNCHANGED <<mie, clint_base>>
    /\ UNCHANGED mbox

\* 41: li reg2, 1; sw reg2, 0(reg1); addi reg1, reg1, 4; blt reg1, END, 41b
SmpBroadcast(h) ==
    /\ pc[h] = "broadcast"
    /\ mem' = raw_writew(mem, 1, reg1[h])
    /\ reg1' = [reg1 EXCEPT ![h] = reg1[h] + 4]
    /\ pc' = [pc EXCEPT ![h] =
                 IF reg1[h] + 4 < CLINT_END_HART_IPI THEN "broadcast" ELSE "wfi"]
    /\ UNCHANGED <<mie, clint_base>>
    /\ UNCHANGED mbox

\* Mutant: the wait loop without its beqz reg2, 42b: whatever wakes the
\* hart, it goes on.
SmpWaitNoTest(h) ==
    /\ pc[h] = "wfi"
    /\ mie[h]
    /\ pc' = [pc EXCEPT ![h] = "ack"]
    /\ UNCHANGED <<mem, mie, clint_base, reg1>>
    /\ UNCHANGED mbox

\* 42: wfi; csrr reg2, mip; andi reg2, reg2, MIP_MSIP; beqz reg2, 42b
\* wfi resumes when the interrupt is pending and enabled in mie.
SmpWait(h) ==
    /\ pc[h] = "wfi"
    /\ mie[h]
    /\ MipMsip(mem, h)
    /\ pc' = [pc EXCEPT ![h] = "ack"]
    /\ UNCHANGED <<mem, mie, clint_base, reg1>>
    /\ UNCHANGED mbox

\* Mutant: the add of the hart's offset is missing, sw zero goes to the
\* register of hart 0.
SmpAckBase(h) ==
    /\ pc[h] = "ack"
    /\ mem' = raw_writew(mem, 0, CLINT_CTRL_ADDR)
    /\ reg1' = [reg1 EXCEPT ![h] = CLINT_CTRL_ADDR]
    /\ pc' = [pc EXCEPT ![h] = "sweep"]
    /\ UNCHANGED <<mie, clint_base>>
    /\ UNCHANGED mbox

\* Mutant: the sweep starts at the hart's own register (reg2) instead of
\* the first one (reg1).
SmpAckSweepFromOwn(h) ==
    /\ pc[h] = "ack"
    /\ mem' = raw_writew(mem, 0, CLINT_CTRL_ADDR + h * 4)
    /\ reg1' = [reg1 EXCEPT ![h] = CLINT_CTRL_ADDR + h * 4]
    /\ pc' = [pc EXCEPT ![h] = "sweep"]
    /\ UNCHANGED <<mie, clint_base>>
    /\ UNCHANGED mbox

\* li reg1, CLINT_CTRL_ADDR; csrr reg2, mhartid; slli reg2, reg2, 2;
\* add reg2, reg2, reg1; sw zero, 0(reg2)
SmpAck(h) ==
    /\ pc[h] = "ack"
    /\ mem' = raw_writew(mem, 0, CLINT_CTRL_ADDR + h * 4)
    /\ reg1' = [reg1 EXCEPT ![h] = CLINT_CTRL_ADDR]
    /\ pc' = [pc EXCEPT ![h] = "sweep"]
    /\ UNCHANGED <<mie, clint_base>>
    /\ UNCHANGED mbox

\* Mutant: the sweep without its bnez reg2, 41b.
SmpSweepNoPoll(h) ==
    /\ pc[h] = "sweep"
    /\ reg1' = [reg1 EXCEPT ![h] = reg1[h] + 4]
    /\ pc' = [pc EXCEPT ![h] =
                 IF reg1[h] + 4 < CLINT_END_HART_IPI THEN "sweep" ELSE Entry(h)]
    /\ UNCHANGED <<mem, mie, clint_base>>
    /\ UNCHANGED mbox

\* 41: lw reg2, 0(reg1); bnez reg2, 41b; addi reg1, reg1, 4;
\* blt reg1, END, 41b
SmpSweep(h) ==
    /\ pc[h] = "sweep"
    /\ raw_readw(mem, reg1[h]) = 0
    /\ reg1' = [reg1 EXCEPT ![h] = reg1[h] + 4]
    /\ pc' = [pc EXCEPT ![h] =
                 IF reg1[h] + 4 < CLINT_END_HART_IPI THEN "sweep" ELSE Entry(h)]
    /\ UNCHANGED <<mem, mie, clint_base>>
    /\ UNCHANGED mbox

(***************************************************************************)
(* libs/console.c and libs/string.c.                                       *)
(***************************************************************************)
\* Mutant: the loop of readline without its i < BUFSIZE - 1.
ReadlineKeyNoBound(st, c) ==
    IF c >= 32
      THEN [i |-> st.i + 1,
            buf |-> IF st.i < Len(st.buf)
                      THEN [st.buf EXCEPT ![st.i + 1] = c]
                      ELSE Append(st.buf, c)]
      ELSE IF c = 8 /\ st.i > 0
             THEN [st EXCEPT !.i = st.i - 1]
             ELSE st

\* Mutant: the loop of readline stores while i <= BUFSIZE - 1, one
\* character too many.
ReadlineKeyOffByOne(st, c) ==
    IF c >= 32 /\ st.i <= BUFSIZE - 1
      THEN [i |-> st.i + 1,
            buf |-> IF st.i < Len(st.buf)
                      THEN [st.buf EXCEPT ![st.i + 1] = c]
                      ELSE Append(st.buf, c)]
      ELSE IF c = 8 /\ st.i > 0
             THEN [st EXCEPT !.i = st.i - 1]
             ELSE st

\* One pass of the loop of readline over the key c, on the index i and the
\* array buf (st.buf holds buf[0 .. Len - 1]): a key from ' ' on is stored
\* while i < BUFSIZE - 1, a backspace steps back, anything else is dropped.
ReadlineKey(st, c) ==
    IF c >= 32 /\ st.i < BUFSIZE - 1
      THEN [i |-> st.i + 1,
            buf |-> IF st.i < Len(st.buf)
                      THEN [st.buf EXCEPT ![st.i + 1] = c]
                      ELSE Append(st.buf, c)]
      ELSE IF c = 8 /\ st.i > 0
             THEN [st EXCEPT !.i = st.i - 1]
             ELSE st

\* The loop of readline over keys[lo .. hi], left to right: the first half
\* of the keys, then the second half from where the first one ended (i is
\* never below 0).
RECURSIVE ReadlineKeys(_, _, _, _)
ReadlineKeys(st, keys, lo, hi) ==
    IF lo > hi THEN st
    ELSE IF lo = hi THEN ReadlineKey(st, keys[lo])
    ELSE LET mid == (lo + hi) \div 2
             left == ReadlineKeys(st, keys, lo, mid)
         IN  IF left.i >= 0 THEN ReadlineKeys(left, keys, mid + 1, hi) ELSE left

\* readline(NULL) when the user types keys and then '\r' or '\n':
\* buf[i] = '\0'; return buf.  The result is buf up to that NUL.
readline(keys) ==
    LET st == ReadlineKeys([i |-> 0, buf |-> <<>>], keys, 1, Len(keys))
    IN  Append(SubSeq(st.buf, 1, st.i), 0)

\* strlen: the bytes before the first NUL.
strlen(s) ==
    CHOOSE k \in 0 .. (Len(s) - 1) :
        /\ s[k + 1] = 0
        /\ \A j \in 1 .. k : s[j] # 0

\* One pass of while (n-- > 0) *d++ = *s++ of memcpy(SMP_ADDR, m, ...): the
\* byte at offset off of m goes to offset off of the mailbox.
MemcpyByte(box, src, off) ==
    [o \in DOMAIN box \cup {off} |-> IF o = off THEN src[off + 1] ELSE box[o]]

\* Mutant: the count without the terminating NUL.
MemcpyCountNoNul(m) == strlen(m)

\* The count test_ipi hands to memcpy.
MemcpyCount(m) == strlen(m) + 1

(***************************************************************************)
(* 64-bit size_t values, as four 16-bit limbs, most significant first.     *)
(***************************************************************************)
U64(k) == <<0, 0, 0, k>>

\* a - b modulo 2^64, for a and b below 2^16.
U64Sub(a, b) ==
    IF a >= b THEN <<0, 0, 0, a - b>>
              ELSE <<65535, 65535, 65535, 65536 - (b - a)>>

U64Leq(x, y) ==
    \/ x = y
    \/ \E k \in 1 .. 4 : /\ x[k] < y[k]
                         /\ \A j \in 1 .. (k - 1) : x[j] = y[j]

\* The value as a hart id, for the CLINT address arithmetic.
U64Low(x) == x[4]

(***************************************************************************)
(* main.c: wait_ipi.                                                       *)
(***************************************************************************)
\* Mutant: the loop is left whatever mip reads.
WaitIpiCheckNoTest(h) ==
    /\ pc[h] = "wait_ipi"
    /\ pc' = [pc EXCEPT ![h] = "wi_clear"]
    /\ UNCHANGED <<hw, reg1, mbox>>

\* while (!(read_csr(mip) & MIP_MSIP)): the test of the loop.
WaitIpiCheck(h) ==
    /\ pc[h] = "wait_ipi"
    /\ pc' = [pc EXCEPT ![h] = IF MipMsip(mem, h) THEN "wi_clear" ELSE "wi_wfi"]
    /\ UNCHANGED <<hw, reg1, mbox>>

\* wfi(): resumes when the interrupt is pending and enabled in mie.
WaitIpiWfi(h) ==
    /\ pc[h] = "wi_wfi"
    /\ mie[h]
    /\ MipMsip(mem, h)
    /\ pc' = [pc EXCEPT ![h] = "wait_ipi"]
    /\ UNCHANGED <<hw, reg1, mbox>>

\* Mutant: wait_ipi answers the sender with clint_send_soft(ZERO_HART).
WaitIpiClearAck(h) ==
    /\ pc[h] = "wi_clear"
    /\ mem' = IF h = ZERO_HART
                THEN clint_clear_soft(mem, clint_base, h)
                ELSE clint_send_soft(clint_clear_soft(mem, clint_base, h),
                                     clint_base, ZERO_HART)
    /\ IF h = ZERO_HART
         THEN /\ pc' = [pc EXCEPT ![h] = "ti_target"]
              /\ rounds' = rounds + 1
              /\ UNCHANGED rx
         ELSE /\ pc' = [pc EXCEPT ![h] = "om_read"]
              /\ UNCHANGED <<rx, rounds>>
    /\ UNCHANGED <<mie, clint_base, reg1, smp, buf, to_hartid, n, d, typed, drv>>

\* clint_clear_soft(hartid); return 0.  Hart 0 returns into test_ipi, which
\* prints and starts the next iteration; the others return into other_main,
\* which starts uart_puts(SMP_ADDR).
WaitIpiClear(h) ==
    /\ pc[h] = "wi_clear"
    /\ mem' = clint_clear_soft(mem, clint_base, h)
    /\ IF h = ZERO_HART
         THEN /\ pc' = [pc EXCEPT ![h] = "ti_target"]
              /\ rounds' = rounds + 1
              /\ UNCHANGED rx
         ELSE /\ pc' = [pc EXCEPT ![h] = "om_read"]
              /\ UNCHANGED <<rx, rounds>>
    /\ UNCHANGED <<mie, clint_base, reg1, smp, buf, to_hartid, n, d, typed, drv>>

(***************************************************************************)
(* main.c: main and test_ipi, on hart 0.                                   *)
(***************************************************************************)
\* main: uart_init, clint_init(CLINT_CTRL_ADDR), the console test
\* readline(NULL), then the call of test_ipi.
Main(h, lines) ==
    /\ pc[h] = "main"
    /\ clint_base' = CLINT_CTRL_ADDR
    /\ \E keys \in lines : buf' = readline(keys)
    /\ pc' = [pc EXCEPT ![h] = "test_ipi"]
    /\ UNCHANGED <<mem, mie, reg1, smp, to_hartid, n, d, rx, rounds, typed, drv>>

\* clint_clear_soft(hartid); set_csr(mie, MIP_MSIP)
TestIpiClear(h) ==
    /\ pc[h] = "test_ipi"
    /\ mem' = clint_clear_soft(mem, clint_base, h)
    /\ mie' = [mie EXCEPT ![h] = TRUE]
    /\ pc' = [pc EXCEPT ![h] = "ti_target"]
    /\ UNCHANGED <<clint_base, reg1, mbox>>

\* Mutant: the lower bound is ZERO_HART instead of ZERO_HART + 1.
TargetInRangeFromZero(t) ==
    U64Leq(U64(ZERO_HART), t) /\ U64Leq(t, U64(MAX_HARTS - 1))

\* to_hartid >= ZERO_HART + 1 && to_hartid <= MAX_HARTS - 1
TargetInRange(t) == U64Leq(U64(ZERO_HART + 1), t) /\ U64Leq(t, U64(MAX_HARTS - 1))

\* to_hartid = readline(NULL)[0] - '0'; the range test; "Hartid out of
\* range!" and the prompt again, or on to the message prompt.
\* The user types at most limit times a hart id that is accepted.
TestIpiTarget(h, lines, limit) ==
    /\ pc[h] = "ti_target"
    /\ rounds < limit
    /\ \E keys \in lines : \E line \in {readline(keys)} :
         LET t == U64Sub(line[1], 48)
         IN  /\ buf' = line
             /\ to_hartid' = t
             /\ pc' = [pc EXCEPT ![h] =
                          IF TargetInRange(t) THEN "ti_msg" ELSE "ti_target"]
    /\ UNCHANGED <<hw, reg1, smp, n, d, rx, rounds, typed, drv>>

\* char* m = readline(NULL); memcpy(SMP_ADDR, m, strlen(m) + 1): up to the
\* first test of while (n-- > 0).
TestIpiMessage(h, lines) ==
    /\ pc[h] = "ti_msg"
    /\ \E keys \in lines : \E m \in {readline(keys)} :
         \E cnt \in {MemcpyCount(m)} :
             /\ buf' = m
             /\ typed' = Len(keys)
             /\ n' = cnt
             /\ d' = 0
             /\ pc' = [pc EXCEPT ![h] = IF cnt > 0 THEN "ti_copy" ELSE "ti_send"]
    /\ UNCHANGED <<hw, reg1, smp, to_hartid, rx, rounds, drv>>

\* Mutant: the loop tests while (--n > 0) and stops one byte early.
TestIpiCopyShort(h) ==
    /\ pc[h] = "ti_copy"
    /\ smp' = MemcpyByte(smp, buf, d)
    /\ d' = d + 1
    /\ n' = n - 1
    /\ pc' = [pc EXCEPT ![h] = IF n - 1 > 1 THEN "ti_copy" ELSE "ti_send"]
    /\ UNCHANGED <<hw, reg1, buf, to_hartid, rx, rounds, typed, drv>>

\* *d++ = *s++ and the next test of while (n-- > 0).
TestIpiCopy(h) ==
    /\ pc[h] = "ti_copy"
    /\ smp' = MemcpyByte(smp, buf, d)
    /\ d' = d + 1
    /\ n' = n - 1
    /\ pc' = [pc EXCEPT ![h] = IF n - 1 > 0 THEN "ti_copy" ELSE "ti_send"]
    /\ UNCHANGED <<hw, reg1, buf, to_hartid, rx, rounds, typed, drv>>

\* Mutant: the wait_ipi(hartid) behind clint_send_soft is missing.
TestIpiSendNoWait(h) ==
    /\ pc[h] = "ti_send"
    /\ mem' = clint_send_soft(mem, clint_base, U64Low(to_hartid))
    /\ pc' = [pc EXCEPT ![h] = "ti_target"]
    /\ rounds' = rounds + 1
    /\ UNCHANGED <<mie, clint_base, reg1, smp, buf, to_hartid, n, d, rx, typed,
                    drv>>

\* clint_send_soft(to_hartid); wait_ipi(hartid)
TestIpiSend(h) ==
    /\ pc[h] = "ti_send"
    /\ mem' = clint_send_soft(mem, clint_base, U64Low(to_hartid))
    /\ pc' = [pc EXCEPT ![h] = "wait_ipi"]
    /\ UNCHANGED <<mie, clint_base, reg1, mbox>>

(***************************************************************************)
(* main.c: other_main, on the harts other than hart 0.                     *)
(***************************************************************************)
\* Mutant: other_main clears the bit of ZERO_HART instead of its own.
OtherMainClearZero(h) ==
    /\ pc[h] = "other_main"
    /\ clint_base' = CLINT_CTRL_ADDR
    /\ mem' = clint_clear_soft(mem, CLINT_CTRL_ADDR, ZERO_HART)
    /\ mie' = [mie EXCEPT ![h] = TRUE]
    /\ pc' = [pc EXCEPT ![h] = "wait_ipi"]
    /\ UNCHANGED <<reg1, mbox>>

\* uart_init, clint_init(CLINT_CTRL_ADDR), clint_clear_soft(hartid),
\* set_csr(mie, MIP_MSIP); while (1) wait_ipi(hartid)
OtherMain(h) ==
    /\ pc[h] = "other_main"
    /\ clint_base' = CLINT_CTRL_ADDR
    /\ mem' = clint_clear_soft(mem, CLINT_CTRL_ADDR, h)
    /\ mie' = [mie EXCEPT ![h] = TRUE]
    /\ pc' = [pc EXCEPT ![h] = "wait_ipi"]
    /\ UNCHANGED <<reg1, mbox>>

\* The byte a load from offset off of the mailbox can return: the byte
\* stored there, or any byte where nothing was stored yet.
MailboxByte(off) == IF off \in DOMAIN smp THEN {smp[off]} ELSE UndefinedBytes

\* Mutant: uart_puts tests its condition with if instead of while and puts
\* one character at most.
OtherMainReadFirstByte(h) ==
    /\ pc[h] = "om_read"
    /\ \E b \in MailboxByte(Len(rx[h])) :
         /\ rx' = [rx EXCEPT ![h] = IF b = 0 THEN rx[h] ELSE Append(rx[h], b)]
         /\ pc' = [pc EXCEPT ![h] = "om_reply"]
    /\ UNCHANGED <<hw, reg1, smp, buf, to_hartid, n, d, rounds, typed, drv>>

\* uart_puts(SMP_ADDR): one pass of while (*s != '\0') uart_putc(*s++).
OtherMainRead(h) ==
    /\ pc[h] = "om_read"
    /\ \E b \in MailboxByte(Len(rx[h])) :
         IF b = 0
           THEN /\ pc' = [pc EXCEPT ![h] = "om_reply"]
                /\ UNCHANGED rx
           ELSE /\ rx' = [rx EXCEPT ![h] = Append(rx[h], b)]
                /\ UNCHANGED pc
    /\ UNCHANGED <<hw, reg1, smp, buf, to_hartid, n, d, rounds, typed, drv>>

\* clint_send_soft(ZERO_HART); the next wait_ipi(hartid).  uart_puts has
\* returned and its output is with the UART.
OtherMainReply(h) ==
    /\ pc[h] = "om_reply"
    /\ mem' = clint_send_soft(mem, clint_base, ZERO_HART)
    /\ rx' = [rx EXCEPT ![h] = <<>>]
    /\ pc' = [pc EXCEPT ![h] = "wait_ipi"]
    /\ UNCHANGED <<mie, clint_base, reg1, smp, buf, to_hartid, n, d, rounds,
                    typed, drv>>

Boot(h) ==
    \/ SmpPause(h)
    \/ SmpBroadcast(h)
    \/ SmpWait(h)
    \/ SmpAck(h)
    \/ SmpSweep(h)

WaitIpi(h) ==
    \/ WaitIpiCheck(h)
    \/ WaitIpiWfi(h)
    \/ WaitIpiClear(h)

Hart0(h) ==
    \/ Main(h, ConsoleLines)
    \/ TestIpiClear(h)
    \/ TestIpiTarget(h, TargetLines, MaxRounds)
    \/ TestIpiMessage(h, MessageLines)
    \/ TestIpiCopy(h)
    \/ TestIpiSend(h)

Other(h) ==
    \/ OtherMain(h)
    \/ OtherMainRead(h)
    \/ OtherMainReply(h)

\* The state at reset: the msip registers and .bss are zero, every hart is
\* at smp_pause.
Init ==
    /\ mem = [a \in ClintRegs |-> 0]
    /\ mie = [h \in Harts |-> FALSE]
    /\ clint_base = 0
    /\ pc = [h \in Harts |-> "smp_pause"]
    /\ reg1 = [h \in Harts |-> 0]
    /\ smp = <<>>
    /\ buf = <<0>>
    /\ to_hartid = U64(0)
    /\ n = 0
    /\ d = 0
    /\ rx = [h \in Harts |-> <<>>]
    /\ rounds = 0
    /\ typed = 0
    /\ drv = NoCall

Next ==
    \E h \in Harts :
        \/ Boot(h)
        \/ WaitIpi(h)
        \/ Hart0(h)
        \/ Other(h)

Spec == Init /\ [][Next]_vars

(***************************************************************************)
(* The test loop alone, with long lines at the message prompt: from the    *)
(* state in which every hart has left the barrier, the harts other than    *)
(* hart 0 sit in the wfi of wait_ipi and hart 0 is at its first hart id    *)
(* prompt.                                                                 *)
(***************************************************************************)
InitIpi ==
    /\ mem = [a \in ClintRegs |-> 0]
    /\ mie = [h \in Harts |-> TRUE]
    /\ clint_base = CLINT_CTRL_ADDR
    /\ pc = [h \in Harts |-> IF h = ZERO_HART THEN "ti_target" ELSE "wi_wfi"]
    /\ reg1 = [h \in Harts |-> CLINT_END_HART_IPI]
    /\ smp = <<>>
    /\ buf \in {readline(keys) : keys \in ConsoleLines}
    /\ to_hartid = U64(0)
    /\ n = 0
    /\ d = 0
    /\ rx = [h \in Harts |-> <<>>]
    /\ rounds = 0
    /\ typed = 0
    /\ drv = NoCall

NextLong ==
    \E h \in Harts :
        \/ WaitIpi(h)
        \/ TestIpiTarget(h, LongTargetLines, LongRounds)
        \/ TestIpiMessage(h, LongLines)
        \/ TestIpiCopy(h)
        \/ TestIpiSend(h)
        \/ OtherMainRead(h)
        \/ OtherMainReply(h)

SpecLong == InitIpi /\ [][NextLong]_vars

(***************************************************************************)
(* The CLINT driver alone: its functions called one after the other, from  *)
(* every state of the msip registers.                                      *)
(***************************************************************************)
DrvSend(hartid) ==
    /\ pc[ZERO_HART] = "driver"
    /\ mem' = clint_send_soft(mem, clint_base, hartid)
    /\ drv' = [op |-> "send", hartid |-> hartid, before |-> mem, result |-> 0]
    /\ UNCHANGED <<mie, clint_base, pc, reg1, smp, buf, to_hartid, n, d, rx,
                    rounds, typed>>

DrvClear(hartid) ==
    /\ pc[ZERO_HART] = "driver"
    /\ mem' = clint_clear_soft(mem, clint_base, hartid)
    /\ drv' = [op |-> "clear", hartid |-> hartid, before |-> mem, result |-> 0]
    /\ UNCHANGED <<mie, clint_base, pc, reg1, smp, buf, to_hartid, n, d, rx,
                    rounds, typed>>

DrvCheck(hartid) ==
    /\ pc[ZERO_HART] = "driver"
    /\ drv' = [op |-> "check", hartid |-> hartid, before |-> mem,
               result |-> clint_check_soft(mem, clint_base, hartid)]
    /\ UNCHANGED <<mem, mie, clint_base, pc, reg1, smp, buf, to_hartid, n, d, rx,
                    rounds, typed>>

DrvSetTimecmp(hartid, time) ==
    /\ pc[ZERO_HART] = "driver"
    /\ mem' = clint_set_timecmp(mem, clint_base, hartid, time)
    /\ drv' = [op |-> "set_timecmp", hartid |-> hartid, before |-> mem,
               result |-> 0]
    /\ UNCHANGED <<mie, clint_base, pc, reg1, smp, buf, to_hartid, n, d, rx,
                    rounds, typed>>

\* clint_init(CLINT_CTRL_ADDR) is done; the msip registers hold any values.
InitClint ==
    /\ mem \in {m \in [ClintRegs -> {0, 1}] :
                  \A k \in 1 .. MAX_HARTS :
                      m[CLINT_CTRL_ADDR + CLINT_MTIMECMP_OFFSETS[k]] = 0}
    /\ mie = [h \in Harts |-> FALSE]
    /\ clint_base = CLINT_CTRL_ADDR
    /\ pc = [h \in Harts |-> "driver"]
    /\ reg1 = [h \in Harts |-> 0]
    /\ smp = <<>>
    /\ buf = <<0>>
    /\ to_hartid = U64(0)
    /\ n = 0
    /\ d = 0
    /\ rx = [h \in Harts |-> <<>>]
    /\ rounds = 0
    /\ typed = 0
    /\ drv = NoCall

NextClint ==
    \E hartid \in Harts :
        \/ DrvSend(hartid)
        \/ DrvClear(hartid)
        \/ DrvCheck(hartid)
        \/ \E time \in TimeValues : DrvSetTimecmp(hartid, time)

SpecClint == InitClint /\ [][NextClint]_vars

\* Every hart is a hardware thread of its own and keeps executing the
\* instructions of the barrier; nothing is assumed of the user at the UART.
FairSpec == Spec /\ \A h \in Harts : WF_vars(Boot(h))

\* Every hart keeps executing whatever it can execute, in the barrier and
\* behind it, and the user keeps typing while a prompt is open.
FairHarts ==
    Spec /\ \A h \in Harts : WF_vars(Boot(h) \/ WaitIpi(h) \/ Hart0(h) \/ Other(h))

(***************************************************************************)
(* Vocabulary of the properties.                                           *)
(***************************************************************************)
\* is_pending(h): the driver's read of the hart's msip register.
Pending(h) == clint_check_soft(mem, CLINT_CTRL_ADDR, h) # 0

BarrierPcs == {"smp_pause", "broadcast", "wfi", "ack", "sweep"}

\* The hart has executed sw zero, 0(reg2) on its own msip register.
Acked(h) == pc[h] \notin {"smp_pause", "broadcast", "wfi", "ack"}

\* The address of the hart's own msip register.
OwnMsip(h) == CLINT_CTRL_ADDR + CLINT_MSIP_OFFSETS[h + 1]

\* The mailbox holds the string m, its NUL included, from offset 0 on.
MailboxHolds(m) ==
    \A k \in 0 .. strlen(m) : k \in DOMAIN smp /\ smp[k] = m[k + 1]

\* The target of the send hart 0 is making or has made last.
Target == U64Low(to_hartid)

(***************************************************************************)
(* C1  Barrier post-condition: when hart 0 has completed the sweep of      *)
(* smp_resume and stands at the entry of main, the pending bit of every    *)
(* hart 1 .. MAX_HARTS - 1 reads false.                                    *)
(***************************************************************************)
C1_BarrierPostCondition ==
    pc[ZERO_HART] = "main" => \A h \in Secondaries : ~Pending(h)

\* Hart 0 has completed its sweep while another hart is still sweeping.
C1_Witness ==
    /\ pc[ZERO_HART] = "main"
    /\ \E h \in Secondaries : pc[h] = "sweep"

(***************************************************************************)
(* C2  Rendezvous: hart 0 is past the sweep only if every other hart has   *)
(* executed the clear of its own pending bit; while one of them has not,   *)
(* hart 0 is still inside the barrier.                                     *)
(***************************************************************************)
C2_Rendezvous ==
    pc[ZERO_HART] \notin BarrierPcs => \A h \in Secondaries : Acked(h)

\* Hart 0 is held in the sweep at the register of a hart that has not
\* cleared its bit yet, the harts before it having cleared theirs.
C2_Witness ==
    /\ pc[ZERO_HART] = "sweep"
    /\ reg1[ZERO_HART] = OwnMsip(MAX_HARTS - 1)
    /\ ~Acked(MAX_HARTS - 1)

(***************************************************************************)
(* C3  Barrier release: with every hart running (weak fairness of the      *)
(* barrier steps of every hart), once hart 0 has finished the broadcast it *)
(* eventually leaves the barrier.                                          *)
(***************************************************************************)
C3_BarrierRelease ==
    (pc[ZERO_HART] = "wfi") ~> (pc[ZERO_HART] \notin BarrierPcs)

\* Hart 0 has left the barrier and the last hart has cleared its bit.
C3_Witness ==
    /\ pc[ZERO_HART] = "main"
    /\ \A h \in Secondaries : Acked(h) /\ ~Pending(h)

(***************************************************************************)
(* C4  Message integrity: when a hart has finished uart_puts(SMP_ADDR)     *)
(* behind its wait_ipi, it is the target of hart 0's send and the bytes it *)
(* read are exactly the message m of that send.                            *)
(***************************************************************************)
C4_MessageIntegrity ==
    \A h \in Secondaries :
        pc[h] = "om_reply" => h = Target /\ Append(rx[h], 0) = buf

\* An empty message was read from a mailbox that still holds the bytes of a
\* longer message sent before.
C4_Witness ==
    \E h \in Secondaries :
        /\ pc[h] = "om_reply"
        /\ rx[h] = <<>>
        /\ 2 \in DOMAIN smp

C6_PendingBitSemantics ==
    /\ drv.op = "send" =>
          /\ clint_check_soft(mem, clint_base, drv.hartid) # 0
          /\ clint_send_soft(mem, clint_base, drv.hartid) = mem
          /\ clint_check_soft(drv.before, clint_base, drv.hartid) # 0
                => mem = drv.before
    /\ drv.op = "clear" =>
          /\ clint_check_soft(mem, clint_base, drv.hartid) = 0
          /\ clint_clear_soft(mem, clint_base, drv.hartid) = mem
          /\ clint_check_soft(drv.before, clint_base, drv.hartid) = 0
                => mem = drv.before
    /\ drv.op # "none" =>
          \A h \in Harts : ENABLED DrvSend(h) /\ ENABLED DrvClear(h)

\* clint_clear_soft was called on a bit that was clear already, another
\* hart's bit being set.
C6_Witness ==
    /\ drv.op = "clear"
    /\ clint_check_soft(drv.before, clint_base, drv.hartid) = 0
    /\ \E g \in Harts : clint_check_soft(mem, clint_base, g) # 0

(***************************************************************************)
(* C7  Cross-hart isolation: clint_send_soft(h) and clint_clear_soft(h)    *)
(* leave the msip register of every other hart and every mtimecmp          *)
(* register as they were.                                                  *)
(***************************************************************************)
C7_CrossHartIsolation ==
    drv.op \in {"send", "clear"} =>
        \A a \in DOMAIN mem : a # OwnMsip(drv.hartid) => mem[a] = drv.before[a]

\* Only the bit of hart 2 was raised: it reads set, the others read clear.
C7_Witness ==
    /\ drv.op = "send"
    /\ drv.hartid = 2
    /\ \A g \in Harts : (clint_check_soft(mem, clint_base, g) # 0) <=> (g = 2)
    /\ \A g \in Harts : clint_check_soft(drv.before, clint_base, g) = 0

(***************************************************************************)
(* C8  Write-then-signal: while the memcpy of a send is under way the      *)
(* target's pending bit is not set, and whenever the target's bit is set   *)
(* behind clint_send_soft the mailbox holds every byte of the message and  *)
(* its NUL.                                                                *)
(***************************************************************************)
C8_WriteThenSignal ==
    /\ pc[ZERO_HART] \in {"ti_copy", "ti_send"} => ~Pending(Target)
    /\ pc[ZERO_HART] = "ti_send" => MailboxHolds(buf)
    /\ (pc[ZERO_HART] \in {"wait_ipi", "wi_wfi"} /\ Pending(Target))
          => n = 0 /\ MailboxHolds(buf)

\* The bit of the target of a two-byte message is set and not cleared yet.
C8_Witness ==
    /\ pc[ZERO_HART] \in {"wait_ipi", "wi_wfi"}
    /\ Pending(Target)
    /\ strlen(buf) = 2

(***************************************************************************)
(* C9  Receive ordering: a hart leaves the loop of wait_ipi only with its  *)
(* pending bit set, it has cleared that bit before it reads the mailbox,   *)
(* and it reads the bytes up to the first NUL.                             *)
(***************************************************************************)
C9_ReceiveOrdering ==
    \A h \in Harts :
        /\ pc[h] = "wi_clear" => Pending(h)
        /\ pc[h] \in {"om_read", "om_reply"} =>
              /\ ~Pending(h)
              /\ \A k \in 1 .. Len(rx[h]) : rx[h][k] # 0 /\ rx[h][k] = smp[k - 1]
        /\ pc[h] = "om_reply" => smp[Len(rx[h])] = 0

\* A hart has cleared its bit and read the first byte of a message.
C9_Witness ==
    \E h \in Secondaries : pc[h] = "om_read" /\ Len(rx[h]) = 1

(***************************************************************************)
(* C10  Receive sends nothing back: a step of a hart inside wait_ipi, or   *)
(* inside the read of the mailbox behind it, leaves every CLINT register   *)
(* as it is but the hart's own msip register, which it may only clear.     *)
(***************************************************************************)
ReceivePcs == {"wait_ipi", "wi_wfi", "wi_clear", "om_read"}

C10_ReceiveSendsNothing ==
    [][\A h \in Harts :
         (pc[h] \in ReceivePcs /\ (pc'[h] # pc[h] \/ rx'[h] # rx[h])) =>
            /\ \A a \in DOMAIN mem : a # OwnMsip(h) => mem'[a] = mem[a]
            /\ mem'[OwnMsip(h)] \in {mem[OwnMsip(h)], 0}
            /\ mie' = mie]_vars

\* A hart other than hart 0 has returned from wait_ipi and hart 0's bit is
\* not set.
C10_Witness ==
    \E h \in Secondaries : pc[h] = "om_read" /\ ~Pending(ZERO_HART)

(***************************************************************************)
(* C11  Serialized mailbox use: once hart 0 is in main, at most one        *)
(* message is outstanding (its target's bit set, or its target between the *)
(* clear of wait_ipi and the end of uart_puts), and while hart 0 is        *)
(* writing the mailbox none is: no hart is reading the mailbox then.       *)
(***************************************************************************)
Outstanding(h) == Pending(h) \/ pc[h] \in {"wi_clear", "om_read"}

C11_SerializedMailbox ==
    /\ pc[ZERO_HART] \notin BarrierPcs =>
          Cardinality({h \in Secondaries : Outstanding(h)}) <= 1
    /\ pc[ZERO_HART] = "ti_copy" =>
          \A h \in Secondaries : ~Outstanding(h) /\ pc[h] # "om_reply"

\* Hart 0 writes the second message into the mailbox, which holds the first,
\* consumed one.
C11_Witness ==
    /\ pc[ZERO_HART] = "ti_copy"
    /\ rounds = 1
    /\ d = 1
    /\ 2 \in DOMAIN smp

(***************************************************************************)
(* C13  Clear ownership: in every step that takes the msip register of a   *)
(* hart from set to clear, that hart is the one stepping; a step of        *)
(* another hart that changes the register leaves it set.                   *)
(***************************************************************************)
C13_ClearOwnership ==
    [][\A g \in Harts :
         /\ (mem[OwnMsip(g)] # 0 /\ mem'[OwnMsip(g)] = 0) => pc'[g] # pc[g]
         /\ (mem'[OwnMsip(g)] # mem[OwnMsip(g)] /\ pc'[g] = pc[g]
               /\ reg1'[g] = reg1[g]) => mem'[OwnMsip(g)] # 0]_vars

\* Hart 0 has cleared, in wait_ipi, the bit another hart set as its reply,
\* and the hart that replied has cleared its own bit three times.
C13_Witness ==
    /\ pc[ZERO_HART] = "ti_target"
    /\ rounds = 1
    /\ ~Pending(ZERO_HART)
    /\ pc[Target] \in {"wait_ipi", "wi_wfi"}

(***************************************************************************)
(* C14  Unmask before park: a hart that stands at a wfi, in the wait loop  *)
(* of smp_resume or in the loop of wait_ipi, has mie.MSIP set; and so has  *)
(* every hart that has left smp_pause.                                     *)
(***************************************************************************)
C14_UnmaskBeforePark ==
    \A h \in Harts :
        /\ pc[h] \in {"wfi", "wi_wfi"} => mie[h]
        /\ pc[h] # "smp_pause" => mie[h]

\* A hart is parked in the wait loop of the barrier, unmasked, before the
\* broadcast of hart 0 has reached its bit.
C14_Witness ==
    /\ pc[ZERO_HART] = "broadcast"
    /\ \E h \in Secondaries : pc[h] = "wfi" /\ ~Pending(h) /\ mie[h]

(***************************************************************************)
(* C15  Broadcast then wait-own: hart 0 enters the broadcast once, at the  *)
(* register of hart 0; each step of the broadcast sets the register of one *)
(* hart and moves to the next hart's, up to the last one; only then does   *)
(* hart 0 wait, leave the wait with its own bit set, clear that bit and,   *)
(* behind the clear only, start the sweep.                                 *)
(***************************************************************************)
C15_BroadcastThenWaitOwn ==
    [][/\ pc'[ZERO_HART] = "broadcast" /\ pc[ZERO_HART] # "broadcast" =>
            pc[ZERO_HART] = "smp_pause" /\ reg1'[ZERO_HART] = OwnMsip(ZERO_HART)
       /\ pc[ZERO_HART] = "broadcast" /\ reg1'[ZERO_HART] # reg1[ZERO_HART] =>
            \E h \in Harts :
                /\ reg1[ZERO_HART] = OwnMsip(h)
                /\ mem' = [mem EXCEPT ![OwnMsip(h)] = 1]
                /\ reg1'[ZERO_HART] = reg1[ZERO_HART] + CLINT_MSIP_SIZE
                /\ pc'[ZERO_HART] =
                       IF h = MAX_HARTS - 1 THEN "wfi" ELSE "broadcast"
       /\ pc[ZERO_HART] = "wfi" /\ pc'[ZERO_HART] # "wfi" =>
            pc'[ZERO_HART] = "ack" /\ Pending(ZERO_HART) /\ mem' = mem
       /\ pc[ZERO_HART] = "ack" /\ pc'[ZERO_HART] # "ack" =>
            /\ pc'[ZERO_HART] = "sweep"
            /\ mem' = [mem EXCEPT ![OwnMsip(ZERO_HART)] = 0]
       /\ pc'[ZERO_HART] = "sweep" => pc[ZERO_HART] \in {"ack", "sweep"}]_vars

\* Hart 0 has broadcast, waited and cleared its bit and stands before the
\* first read of its sweep, while another hart has not woken up yet.
C15_Witness ==
    /\ pc[ZERO_HART] = "sweep"
    /\ reg1[ZERO_HART] = OwnMsip(ZERO_HART)
    /\ ~Pending(ZERO_HART)
    /\ \E h \in Secondaries : pc[h] = "wfi" /\ Pending(h)

(***************************************************************************)
(* C16  Secondary acknowledge-first: a hart other than hart 0 leaves the   *)
(* wait loop of the barrier only with its own bit set and without touching *)
(* the CLINT, its next step is the clear of its own msip register and      *)
(* nothing else, and it gets to other_main only from the sweep behind      *)
(* that clear.                                                             *)
(***************************************************************************)
C16_SecondaryAckFirst ==
    [][\A h \in Secondaries :
         /\ pc[h] = "wfi" /\ pc'[h] # "wfi" =>
              pc'[h] = "ack" /\ Pending(h) /\ mem' = mem
         /\ pc[h] = "ack" /\ pc'[h] # "ack" =>
              /\ pc'[h] = "sweep"
              /\ mem' = [mem EXCEPT ![OwnMsip(h)] = 0]
         /\ pc'[h] = "sweep" => pc[h] \in {"ack", "sweep"}
         /\ pc'[h] \notin BarrierPcs /\ pc[h] \in BarrierPcs =>
              pc[h] = "sweep" /\ pc'[h] = "other_main"]_vars

\* A hart has left the wait loop and stands before its clear, its bit set,
\* while hart 0 is still broadcasting.
C16_Witness ==
    /\ pc[ZERO_HART] = "broadcast"
    /\ \E h \in Secondaries : pc[h] = "ack" /\ Pending(h)

(***************************************************************************)
(* C17  Target validation: hart 0 is behind the hart id prompt of the test *)
(* loop only with to_hartid in ZERO_HART + 1 .. MAX_HARTS - 1; a step of   *)
(* test_ipi changes the CLINT only by setting the msip register of such a  *)
(* hart, never hart 0's; and a line that is rejected or accepted at the    *)
(* prompt changes neither the mailbox nor the CLINT.                       *)
(***************************************************************************)
TestLoopPcs == {"ti_target", "ti_msg", "ti_copy", "ti_send"}

C17_TargetValidation ==
    [][/\ pc'[ZERO_HART] \in {"ti_msg", "ti_copy", "ti_send"} =>
            \E k \in (ZERO_HART + 1) .. (MAX_HARTS - 1) : to_hartid' = U64(k)
       /\ pc[ZERO_HART] \in TestLoopPcs /\ pc'[ZERO_HART] # pc[ZERO_HART]
            /\ mem' # mem =>
              \E k \in Secondaries :
                  to_hartid = U64(k) /\ mem' = [mem EXCEPT ![OwnMsip(k)] = 1]
       /\ pc[ZERO_HART] = "ti_target"
            /\ (buf' # buf \/ to_hartid' # to_hartid \/ pc'[ZERO_HART] = "ti_msg")
            => smp' = smp /\ mem' = mem]_vars

\* The line "/" was typed at the prompt: to_hartid has wrapped to 2^64 - 1,
\* hart 0 is at the prompt again, after a round in which it sent a message.
C17_Witness ==
    /\ pc[ZERO_HART] = "ti_target"
    /\ \A i \in 1 .. 4 : to_hartid[i] = 65535
    /\ rounds = 1
    /\ \A h \in Harts : ~Pending(h)

(***************************************************************************)
(* C18  Full barrier: a hart, hart 0 or another, is outside the boot       *)
(* barrier only if every hart 0 .. MAX_HARTS - 1 has executed the clear of *)
(* its own msip register.                                                  *)
(***************************************************************************)
C18_FullBarrier ==
    \A h \in Harts : pc[h] \notin BarrierPcs => \A g \in Harts : Acked(g)

\* A hart other than hart 0 has left the barrier while hart 0 is still in
\* its sweep.
C18_Witness ==
    /\ pc[ZERO_HART] = "sweep"
    /\ \E h \in Secondaries : pc[h] \notin BarrierPcs

(***************************************************************************)
(* C19  No lost signal, as claimed: while hart 0 waits in wait_ipi behind  *)
(* clint_send_soft(to_hartid), the answer is under way: the target's bit   *)
(* is still set, or the target has seen it and is between the clear of its *)
(* wait_ipi and its clint_send_soft(ZERO_HART), or hart 0's bit is set.    *)
(* Where this fails nothing can set hart 0's bit any more and its wait_ipi *)
(* never returns.                                                          *)
(***************************************************************************)
AnswerUnderWay ==
    \/ Pending(Target)
    \/ pc[Target] \in {"wi_clear", "om_read", "om_reply"}
    \/ Pending(ZERO_HART)

C19_NoLostSignal ==
    pc[ZERO_HART] \in {"wait_ipi", "wi_wfi"} => AnswerUnderWay

(***************************************************************************)
(* C20  Barrier exit of every hart, as claimed: with every hart running,   *)
(* a hart that is in the sweep of the barrier eventually leaves it.        *)
(***************************************************************************)
C20_EveryHartLeavesSweep ==
    \A h \in Harts : (pc[h] = "sweep") ~> (pc[h] # "sweep")

(***************************************************************************)
(* C21  Reply implies receipt: a hart executes clint_send_soft(ZERO_HART)  *)
(* only as the target of the send hart 0 is waiting on, with its own bit   *)
(* cleared and the whole message of that send read from the mailbox; once  *)
(* hart 0 is in main its bit is raised by such a step only; and when hart  *)
(* 0's wait_ipi is about to return, its bit is set, the target is back in  *)
(* its wait_ipi and no other hart is receiving or replying.                *)
(***************************************************************************)
C21_ReplyImpliesReceipt ==
    [][/\ \A h \in Secondaries :
            pc[h] = "om_reply" /\ pc'[h] # pc[h] =>
                /\ h = Target
                /\ pc[ZERO_HART] \in {"wait_ipi", "wi_wfi"}
                /\ ~Pending(h)
                /\ Append(rx[h], 0) = buf
                /\ mem'[OwnMsip(ZERO_HART)] # 0
       /\ pc[ZERO_HART] \notin BarrierPcs /\ mem[OwnMsip(ZERO_HART)] = 0
            /\ mem'[OwnMsip(ZERO_HART)] # 0 =>
                pc[Target] = "om_reply" /\ pc'[Target] = "wait_ipi"
       /\ pc'[ZERO_HART] = "wi_clear" =>
                /\ mem'[OwnMsip(ZERO_HART)] # 0
                /\ mem'[OwnMsip(Target)] = 0
                /\ pc'[Target] \in {"wait_ipi", "wi_wfi"}
                /\ \A h \in Secondaries :
                       pc'[h] \notin {"wi_clear", "om_read", "om_reply"}]_vars

\* In the second round hart 0 has seen the reply to a two-character message
\* and stands before the clear that ends its wait_ipi.
C21_Witness ==
    /\ pc[ZERO_HART] = "wi_clear"
    /\ rounds = 1
    /\ strlen(buf) = 2
    /\ Pending(ZERO_HART)

(***************************************************************************)
(* C22  Mailbox bound without a check: the line readline returns fits its  *)
(* buffer of BUFSIZE bytes, NUL included; the count strlen(m) + 1 handed   *)
(* to memcpy is at most BUFSIZE, which is at most SMP_SIZE; memcpy is      *)
(* never further than that count into the mailbox, and every byte written  *)
(* lies at an offset 0 .. SMP_SIZE - 1 from SMP_ADDR.                      *)
(***************************************************************************)
C22_MailboxBound ==
    /\ Len(buf) <= BUFSIZE
    /\ BUFSIZE <= SMP_SIZE
    /\ pc[ZERO_HART] \in {"ti_copy", "ti_send"} =>
          /\ MemcpyCount(buf) <= BUFSIZE
          /\ d <= MemcpyCount(buf)
          /\ n = MemcpyCount(buf) - d
    /\ \A o \in DOMAIN smp : 0 <= o /\ o < SMP_SIZE

\* memcpy has written all BUFSIZE bytes of a message typed with
\* SMP_SIZE - 1 characters; the last one lies at offset BUFSIZE - 1.
C22_Witness ==
    /\ pc[ZERO_HART] = "ti_send"
    /\ typed = SMP_SIZE - 1
    /\ d = BUFSIZE
    /\ (BUFSIZE - 1) \in DOMAIN smp
    /\ smp[BUFSIZE - 1] = 0

=============================================================================
